---------------------------- MODULE Spec2Model ----------------------------
(* The Streamlit script of src/init.py as a state machine.                  *)
(*                                                                          *)
(* One script run is main() (lines 142-156): create_clear_button, the       *)
(* three blocks of sidebar_content (upload, extract, solve) and             *)
(* display_results, in that order.  st.session_state and the file           *)
(* uploader's value live across runs; every user interaction starts one run *)
(* and reports at most one button as pressed.  Strings are sequences of     *)
(* one-character strings, so that str.replace and truthiness are computed   *)
(* as Python computes them.                                                 *)
EXTENDS Naturals, Sequences, FiniteSets

VARIABLES
    session_state,   \* st.session_state: uploaded_image, ocr_result, solution_result
    uploaded_file,   \* the value the st.file_uploader widget holds (line 86)
    pc,              \* position of the script run; "idle" between runs
    clicked,         \* the button this run reports as pressed, or "none"
    extract_shown,   \* 'Extract LaTeX code' was rendered by the latest run (line 106)
    solve_shown,     \* 'Solve Equation' was rendered by the latest run (line 119)
    requests,        \* the ollama.chat requests dispatched by the current run
    response,        \* what the latest ollama.chat call of the run produced
    errors,          \* the error messages the current run has put on the page
    cleaned_latex,   \* display_results' local cleaned_latex (line 132)
    step,            \* the block of the script that ran last
    before,          \* st.session_state as it was when that block started
    ocr_source,      \* the image the stored ocr_result was extracted from
    history,         \* what the session has done so far (see NoHistory)
    san_pc,          \* position of the sanitizer harness
    san_in,          \* its input string
    san_once,        \* the input sanitized once
    san_twice        \* the input sanitized twice

vars == <<session_state, uploaded_file, pc, clicked, extract_shown, solve_shown,
          requests, response, errors, cleaned_latex, step, before, ocr_source,
          history, san_pc, san_in, san_once, san_twice>>

runVars == <<session_state, uploaded_file, pc, clicked, extract_shown, solve_shown,
             requests, response, errors, cleaned_latex, step, before, ocr_source,
             history>>

sanVars == <<san_pc, san_in, san_once, san_twice>>

-----------------------------------------------------------------------------
(* Values *)

\* Longest input string given to the sanitizer harness.
MaxLen == 4

\* Python's None; a one-element sequence no string or image is equal to.
None == <<"None">>

VISION_MODEL == <<"llama3.2-vision">>

MATH_MODEL == <<"qwen2-math:1.5b">>

PROMPT_TEMPLATE == <<"PROMPT_TEMPLATE">>

\* The characters strings are made of: backslash, the two brackets, another one.
Alphabet == {"\\", "[", "]", "x"}

Strings(n) == UNION {[1..k -> Alphabet] : k \in 0..n}

\* The files a user can put into the uploader; Image.open fails on the last.
Files == {<<"imgA">>, <<"imgB">>, <<"corrupt">>}

Decodable(f) == f # <<"corrupt">>

\* The content strings a model can answer with: empty, plain, delimited.
Contents == {<<>>, <<"x">>, <<"\\", "[", "x", "\\", "]">>}

\* The ways ollama.chat plus the unwrapping response['message']['content'] can fail.
FailureKinds == {"ConnectionFailure", "ModelNotFound", "Timeout", "MalformedResponse"}

\* What one ollama.chat call can produce.
ChatOutcomes ==
    {[kind |-> k, content |-> None] : k \in FailureKinds}
        \cup {[kind |-> "ok", content |-> c] : c \in Contents}

\* Python truthiness of an Optional[str] / Optional[Image].
Truthy(v) == v # None /\ Len(v) > 0

\* The three fields as init_session_state creates them and as Clear leaves them.
Empty == [uploaded_image |-> None, ocr_result |-> None, solution_result |-> None]

\* The record of the session's past at its start:
\*   ocr_raw      the content the vision model returned to the latest successful
\*                extraction since the latest Clear
\*   solve_input  the latex_code of the latest successful solve call
\*   solve_output the content that call returned
\*   event        the user event that started the current script run
\*   prev_event   the user event that started the run before it
\*   prev_end     st.session_state when that earlier run had ended
NoHistory ==
    [ocr_raw |-> None, solve_input |-> None, solve_output |-> None,
     event |-> "start", prev_event |-> "start", prev_end |-> Empty]

-----------------------------------------------------------------------------
(* ResultSanitizer: str.replace, left to right, non-overlapping *)

RECURSIVE Replace(_, _)
Replace(s, old) ==
    IF Len(s) < Len(old) THEN s
    ELSE IF SubSeq(s, 1, Len(old)) = old
         THEN Replace(SubSeq(s, Len(old) + 1, Len(s)), old)
         ELSE <<Head(s)>> \o Replace(Tail(s), old)

sanitizeBareBrackets(latex) == Replace(Replace(latex, <<"[">>), <<"]">>)

\* Line 132.
sanitizeForDisplay(latex) == Replace(Replace(latex, <<"\\", "[">>), <<"\\", "]">>)

-----------------------------------------------------------------------------
(* InferenceClient *)

\* process_image: the request it sends and, per outcome of ollama.chat, the
\* value it returns and the st.error it shows.
process_image(image, outcome) ==
    [request |-> [model |-> VISION_MODEL, content |-> PROMPT_TEMPLATE, images |-> <<image>>],
     result  |-> IF outcome.kind = "ok" THEN outcome.content ELSE None,
     errors  |-> IF outcome.kind = "ok" THEN {} ELSE {<<"Error processing image", outcome.kind>>}]

solve_equation(latex_code, outcome) ==
    [request |-> [model |-> MATH_MODEL, content |-> latex_code, images |-> <<>>],
     result  |-> IF outcome.kind = "ok" THEN outcome.content ELSE None,
     errors  |-> IF outcome.kind = "ok" THEN {} ELSE {<<"Error solving equation", outcome.kind>>}]

-----------------------------------------------------------------------------
(* WorkflowState transitions *)

ClearKeepsOcr(ss) == [ss EXCEPT !.uploaded_image = None, !.solution_result = None]

ClearKeepsSolution(ss) == [ss EXCEPT !.ocr_result = None, !.uploaded_image = None]

\* Lines 44-46.
ClearState(ss) ==
    [ss EXCEPT !.ocr_result = None, !.uploaded_image = None, !.solution_result = None]

\* Line 101.
LoadImage(ss, image) == [ss EXCEPT !.uploaded_image = image]

ImageGateOpen(ss) == TRUE

\* Line 103: the extract block runs, and its button exists, only with an image.
ImageGate(ss) == Truthy(ss.uploaded_image)

OcrGateOpen(ss) == TRUE

\* Line 119, left operand of `and`: the solve button exists only with an ocr_result.
OcrGate(ss) == Truthy(ss.ocr_result)

ExtractStoreNotNone(ss, result) ==
    IF result # None
    THEN [ss EXCEPT !.ocr_result = result, !.solution_result = None]
    ELSE ss

ExtractStoreKeepsSolution(ss, result) ==
    IF Truthy(result) THEN [ss EXCEPT !.ocr_result = result] ELSE ss

ExtractStoreUnguarded(ss, result) ==
    [ss EXCEPT !.ocr_result = result, !.solution_result = None]

\* Lines 115-117.
ExtractStore(ss, result) ==
    IF Truthy(result)
    THEN [ss EXCEPT !.ocr_result = result, !.solution_result = None]
    ELSE ss

SolveStoreIntoOcr(ss, solution) ==
    IF Truthy(solution)
    THEN [ss EXCEPT !.solution_result = solution, !.ocr_result = solution]
    ELSE ss

SolveStoreUnguarded(ss, solution) == [ss EXCEPT !.solution_result = solution]

\* Lines 122-123.
SolveStore(ss, solution) ==
    IF Truthy(solution) THEN [ss EXCEPT !.solution_result = solution] ELSE ss

RenderStoresCleaned(ss, cleaned) ==
    IF Truthy(ss.ocr_result) THEN [ss EXCEPT !.ocr_result = cleaned] ELSE ss

\* Lines 127-138: display_results reads the fields and assigns none of them;
\* cleaned_latex is a local that is dropped after st.latex.
RenderState(ss, cleaned) == ss

DispatchWithRetry(sent, call) ==
    IF call.result = None
    THEN Append(Append(sent, call.request), call.request)
    ELSE Append(sent, call.request)

\* Lines 52-59 and 68-74: one ollama.chat call, whatever its outcome.
Dispatch(sent, call) == Append(sent, call.request)

ClearButtonWithImage(ss) == Truthy(ss.uploaded_image)

\* Lines 43 and 146: the Clear button is rendered unconditionally by every run.
ClearButton(ss) == TRUE

-----------------------------------------------------------------------------
(* The script *)

Init ==
    /\ session_state = Empty
    /\ uploaded_file = None
    /\ pc = "idle"
    /\ clicked = "none"
    /\ extract_shown = FALSE
    /\ solve_shown = FALSE
    /\ requests = <<>>
    /\ response = None
    /\ errors = {}
    /\ cleaned_latex = None
    /\ step = "init"
    /\ before = Empty
    /\ ocr_source = None
    /\ history = NoHistory
    /\ san_pc = "off"
    /\ san_in = <<>>
    /\ san_once = None
    /\ san_twice = None

\* A script run starts from the top: nothing rendered, requested or reported yet.
StartRun(button, event) ==
    /\ pc' = "create_clear_button"
    /\ clicked' = button
    /\ extract_shown' = FALSE
    /\ solve_shown' = FALSE
    /\ requests' = <<>>
    /\ response' = None
    /\ errors' = {}
    /\ cleaned_latex' = None
    /\ before' = session_state
    /\ history' = [history EXCEPT !.event = event, !.prev_event = history.event,
                                  !.prev_end = session_state]

\* The user puts a file into the uploader (lines 86-90).
SelectFile ==
    /\ pc = "idle"
    /\ \E f \in Files :
        /\ f # uploaded_file
        /\ uploaded_file' = f
    /\ StartRun("none", "select_file")
    /\ step' = "select_file"
    /\ UNCHANGED <<session_state, ocr_source, sanVars>>

\* The user takes the file out of the uploader.
RemoveFile ==
    /\ pc = "idle"
    /\ uploaded_file # None
    /\ uploaded_file' = None
    /\ StartRun("none", "remove_file")
    /\ step' = "remove_file"
    /\ UNCHANGED <<session_state, ocr_source, sanVars>>

\* The user presses one of the buttons the latest run rendered.
ClickButton ==
    /\ pc = "idle"
    /\ \E b \in {"Clear", "Extract", "Solve"} :
        /\ b = "Extract" => extract_shown
        /\ b = "Solve" => solve_shown
        /\ b = "Clear" => ClearButton(session_state)
        /\ StartRun(b, b)
    /\ step' = "click"
    /\ UNCHANGED <<session_state, uploaded_file, ocr_source, sanVars>>

\* Lines 39-47.  st.experimental_rerun() abandons the run and starts the
\* script again with the widgets' values kept and no button pressed.
create_clear_button ==
    /\ pc = "create_clear_button"
    /\ before' = session_state
    /\ IF clicked = "Clear"
       THEN /\ session_state' = ClearState(session_state)
            /\ ocr_source' = None
            /\ history' = [history EXCEPT !.ocr_raw = None]
            /\ clicked' = "none"
            /\ pc' = "create_clear_button"
            /\ step' = "clear"
       ELSE /\ pc' = "upload"
            /\ step' = "no_clear"
            /\ UNCHANGED <<session_state, ocr_source, history, clicked>>
    /\ UNCHANGED <<uploaded_file, extract_shown, solve_shown, requests, response,
                   errors, cleaned_latex, sanVars>>

\* Lines 99-101.  Image.open raises on a file that is no image; the
\* uncaught exception is shown and ends the run.
upload_block ==
    /\ pc = "upload"
    /\ before' = session_state
    /\ IF ~Truthy(uploaded_file)
       THEN /\ pc' = "extract"
            /\ step' = "no_file"
            /\ UNCHANGED <<session_state, errors>>
       ELSE IF Decodable(uploaded_file)
       THEN /\ session_state' = LoadImage(session_state, uploaded_file)
            /\ pc' = "extract"
            /\ step' = "load"
            /\ UNCHANGED errors
       ELSE /\ errors' = errors \cup {<<"UnidentifiedImageError">>}
            /\ pc' = "idle"
            /\ step' = "load_raised"
            /\ UNCHANGED session_state
    /\ UNCHANGED <<uploaded_file, clicked, extract_shown, solve_shown, requests,
                   response, cleaned_latex, ocr_source, history, sanVars>>

\* Lines 103-117.
extract_block ==
    /\ pc = "extract"
    /\ pc' = "solve"
    /\ before' = session_state
    /\ extract_shown' = ImageGate(session_state)
    /\ IF ~ImageGate(session_state)
       THEN /\ step' = "extract_skipped"
            /\ UNCHANGED <<session_state, requests, response, errors, ocr_source,
                           history>>
       ELSE IF clicked # "Extract"
       THEN /\ step' = "extract_not_pressed"
            /\ UNCHANGED <<session_state, requests, response, errors, ocr_source,
                           history>>
       ELSE \E outcome \in ChatOutcomes :
              LET call == process_image(session_state.uploaded_image, outcome)
                  new == ExtractStore(session_state, call.result)
              IN /\ requests' = Dispatch(requests, call)
                 /\ response' = call.result
                 /\ errors' = errors \cup call.errors
                 /\ session_state' = new
                 /\ ocr_source' = IF Truthy(call.result)
                                  THEN session_state.uploaded_image
                                  ELSE ocr_source
                 /\ history' = IF Truthy(call.result)
                               THEN [history EXCEPT !.ocr_raw = outcome.content]
                               ELSE history
                 /\ step' = IF Truthy(call.result) THEN "extract_succeeded"
                            ELSE "extract_failed"
    /\ UNCHANGED <<uploaded_file, clicked, solve_shown, cleaned_latex, sanVars>>

\* Lines 119-123.
solve_block ==
    /\ pc = "solve"
    /\ pc' = "display"
    /\ before' = session_state
    /\ solve_shown' = OcrGate(session_state)
    /\ IF ~OcrGate(session_state)
       THEN /\ step' = "solve_skipped"
            /\ UNCHANGED <<session_state, requests, response, errors, history>>
       ELSE IF clicked # "Solve"
       THEN /\ step' = "solve_not_pressed"
            /\ UNCHANGED <<session_state, requests, response, errors, history>>
       ELSE \E outcome \in ChatOutcomes :
              LET call == solve_equation(session_state.ocr_result, outcome)
              IN /\ requests' = Dispatch(requests, call)
                 /\ response' = call.result
                 /\ errors' = errors \cup call.errors
                 /\ session_state' = SolveStore(session_state, call.result)
                 /\ history' = IF Truthy(call.result)
                               THEN [history EXCEPT !.solve_input = call.request.content,
                                                    !.solve_output = outcome.content]
                               ELSE history
                 /\ step' = IF Truthy(call.result) THEN "solve_succeeded"
                            ELSE "solve_failed"
    /\ UNCHANGED <<uploaded_file, clicked, extract_shown, cleaned_latex,
                   ocr_source, sanVars>>

\* Lines 125-140.
display_results ==
    /\ pc = "display"
    /\ pc' = "idle"
    /\ before' = session_state
    /\ step' = "display"
    /\ LET cleaned == IF Truthy(session_state.ocr_result)
                      THEN sanitizeForDisplay(session_state.ocr_result)
                      ELSE None
       IN /\ cleaned_latex' = cleaned
          /\ session_state' = RenderState(session_state, cleaned)
    /\ UNCHANGED <<uploaded_file, clicked, extract_shown, solve_shown,
                   requests, response, errors, ocr_source, history, sanVars>>

Next ==
    \/ SelectFile
    \/ RemoveFile
    \/ ClickButton
    \/ create_clear_button
    \/ upload_block
    \/ extract_block
    \/ solve_block
    \/ display_results

Spec == Init /\ [][Next]_vars

\* A click on Clear.
ClickClear == ClickButton /\ clicked' = "Clear"

\* The blocks of a script run.
ScriptStep ==
    create_clear_button \/ upload_block \/ extract_block \/ solve_block \/ display_results

\* The script with a run that goes on to its end and a user who does not
\* leave the Clear button unpressed forever.
ClearingSpec == Spec /\ WF_vars(ScriptStep) /\ SF_vars(ClickClear)

-----------------------------------------------------------------------------
(* The sanitizer applied to every string of up to MaxLen characters *)

SanInit ==
    /\ session_state = Empty
    /\ uploaded_file = None
    /\ pc = "off"
    /\ clicked = "none"
    /\ extract_shown = FALSE
    /\ solve_shown = FALSE
    /\ requests = <<>>
    /\ response = None
    /\ errors = {}
    /\ cleaned_latex = None
    /\ step = "init"
    /\ before = Empty
    /\ ocr_source = None
    /\ history = NoHistory
    /\ san_pc = "start"
    /\ san_in \in Strings(MaxLen)
    /\ san_once = None
    /\ san_twice = None

SanitizeOnce ==
    /\ san_pc = "start"
    /\ san_once' = sanitizeForDisplay(san_in)
    /\ san_pc' = "once"
    /\ UNCHANGED <<san_in, san_twice, runVars>>

SanitizeTwice ==
    /\ san_pc = "once"
    /\ san_twice' = sanitizeForDisplay(san_once)
    /\ san_pc' = "twice"
    /\ UNCHANGED <<san_in, san_once, runVars>>

SanNext == SanitizeOnce \/ SanitizeTwice

SanSpec == SanInit /\ [][SanNext]_vars

-----------------------------------------------------------------------------
(* Properties *)

IsSet(v) == v # None

SolveSteps == {"solve_skipped", "solve_not_pressed", "solve_succeeded", "solve_failed"}

ExtractSteps == {"extract_skipped", "extract_not_pressed", "extract_succeeded",
                 "extract_failed"}

RequestsTo(model) == {i \in 1..Len(requests) : requests[i].model = model}

ErrorsOf(kinds) == {e \in errors : e[1] \in kinds}

\* C1: in every reachable state, solution_result set implies ocr_result set,
\* and ocr_result set implies uploaded_image set.
FieldOrderInvariant ==
    /\ IsSet(session_state.solution_result) => IsSet(session_state.ocr_result)
    /\ IsSet(session_state.ocr_result) => IsSet(session_state.uploaded_image)

\* A run has ended with all three fields set.
FieldOrderWitness ==
    /\ pc = "idle"
    /\ IsSet(session_state.solution_result)
    /\ IsSet(session_state.ocr_result)
    /\ IsSet(session_state.uploaded_image)

\* C2: loading an image leaves ocr_result and solution_result unset, so a
\* stored ocr_result is always one extracted from the current uploaded_image.
\* (Read in the claim's favour: only a load that changes the image counts.)
LoadInvalidatesResults ==
    /\ (step = "load" /\ session_state.uploaded_image # before.uploaded_image)
          => (~IsSet(session_state.ocr_result) /\ ~IsSet(session_state.solution_result))
    /\ IsSet(session_state.ocr_result) => ocr_source = session_state.uploaded_image

\* C3: directly after the Clear step all three fields are none, whatever
\* they were before.
ClearResetsAll == step = "clear" => session_state = Empty

\* The Clear step has run from a state with all three fields set.
ClearResetsAllWitness ==
    /\ step = "clear"
    /\ IsSet(before.uploaded_image)
    /\ IsSet(before.ocr_result)
    /\ IsSet(before.solution_result)

\* C4: a successful extraction returning the non-empty text t sets ocr_result
\* to t and solution_result to none and leaves uploaded_image unchanged.
ExtractSucceededEffect ==
    step = "extract_succeeded" =>
        /\ IsSet(before.uploaded_image)
        /\ Len(response) > 0
        /\ session_state.ocr_result = response
        /\ session_state.solution_result = None
        /\ session_state.uploaded_image = before.uploaded_image

\* An extraction succeeded while a solution of an earlier extraction was stored.
ExtractSucceededWitness ==
    /\ step = "extract_succeeded"
    /\ IsSet(before.solution_result)
    /\ before.ocr_result # session_state.ocr_result

\* C5: a successful solve returning the non-empty text s sets solution_result
\* to s and leaves ocr_result and uploaded_image unchanged.
SolveSucceededEffect ==
    step = "solve_succeeded" =>
        /\ IsSet(before.ocr_result)
        /\ Len(response) > 0
        /\ session_state.solution_result = response
        /\ session_state.ocr_result = before.ocr_result
        /\ session_state.uploaded_image = before.uploaded_image

\* A solve succeeded with an answer that differs from the equation solved.
SolveSucceededWitness ==
    /\ step = "solve_succeeded"
    /\ session_state.solution_result # session_state.ocr_result

\* C6: a failed extraction (ollama.chat raised, the response was malformed, or
\* its content was empty) leaves all three fields as they were.
ExtractFailedKeepsState == step = "extract_failed" => session_state = before

\* An extraction failed with an exception while an ocr_result and a solution
\* were stored.
ExtractFailedWitness ==
    /\ step = "extract_failed"
    /\ response = None
    /\ IsSet(before.ocr_result)
    /\ IsSet(before.solution_result)

\* C7: a failed solve leaves all three fields as they were, a solution stored
\* by an earlier solve included.
SolveFailedKeepsState == step = "solve_failed" => session_state = before

\* A solve failed while the solution of an earlier solve was stored.
SolveFailedWitness ==
    /\ step = "solve_failed"
    /\ IsSet(before.solution_result)

SanitizerIdempotent == san_pc = "twice" => san_twice = san_once

Tokens == {<<"\\", "[">>, <<"\\", "]">>}

\* The positions at which a token starts in s.
TokenStarts(s) == {i \in 1..(Len(s) - 1) : SubSeq(s, i, i + 1) \in Tokens}

\* The positions of s that lie inside a token of s.
TokenPositions(s) == TokenStarts(s) \cup {i + 1 : i \in TokenStarts(s)}

\* s without the characters at the positions D, the others in their order.
RECURSIVE DeleteAt(_, _)
DeleteAt(s, D) ==
    IF s = <<>> THEN <<>>
    ELSE LET rest == DeleteAt(Tail(s), {i - 1 : i \in D \ {1}})
         IN IF 1 \in D THEN rest ELSE <<Head(s)>> \o rest

\* Every string that successive deletions of one token at a time lead to.
RECURSIVE TokenDeletions(_)
TokenDeletions(s) ==
    {s} \cup UNION {TokenDeletions(DeleteAt(s, {i, i + 1})) : i \in TokenStarts(s)}

RenderKeepsRawResult ==
    /\ step = "display" => session_state = before
    /\ IsSet(session_state.ocr_result) => session_state.ocr_result = history.ocr_raw
    /\ \A i \in RequestsTo(MATH_MODEL) : requests[i].content = history.ocr_raw

\* A solve request has been sent for an ocr_result that an earlier run has
\* rendered in a sanitized form that differs from it.
RenderKeepsRawResultWitness ==
    /\ step \in {"solve_succeeded", "solve_failed"}
    /\ RequestsTo(MATH_MODEL) # {}
    /\ sanitizeForDisplay(history.ocr_raw) # history.ocr_raw

\* The run has made an inference call that failed.
CallFailed == requests # <<>> /\ ~Truthy(response)

\* C13: every failed inference call (an exception of any kind, a malformed or
\* an empty response) puts an error message on the page and does not end the
\* session: Clear, upload and extract are available after the run.
FailedCallIsReported ==
    /\ (step \in {"extract_failed", "solve_failed"})
          => ErrorsOf({"Error processing image", "Error solving equation"}) # {}
    /\ (pc = "idle" /\ CallFailed)
          => (ClearButton(session_state) /\ extract_shown /\ ENABLED SelectFile)

\* C14: a click of 'Extract LaTeX code' or 'Solve Equation' dispatches exactly
\* one request, to the model of that button; a failed request is not sent
\* again by the same run, and a run that no such click started sends nothing.
OneRequestPerClick ==
    /\ Len(requests) <= 1
    /\ step \in {"extract_succeeded", "extract_failed"}
          => (Len(requests) = 1 /\ RequestsTo(VISION_MODEL) = {1})
    /\ step \in {"solve_succeeded", "solve_failed"}
          => (Len(requests) = 1 /\ RequestsTo(MATH_MODEL) = {1})
    /\ pc = "idle" =>
          /\ history.event = "Extract" => RequestsTo(VISION_MODEL) = {1}
          /\ history.event = "Solve" => RequestsTo(MATH_MODEL) = {1}
          /\ history.event \notin {"Extract", "Solve"} => requests = <<>>

\* A run started by a click has ended after its one request failed.
OneRequestPerClickWitness ==
    /\ pc = "idle"
    /\ history.event \in {"Extract", "Solve"}
    /\ CallFailed
    /\ errors # {}

\* C15: every solve call follows a successful extraction with no Clear in
\* between, and no script run sends both an extraction and a solve request.
SolveGatedBehindExtraction ==
    /\ RequestsTo(MATH_MODEL) # {} =>
          (IsSet(history.ocr_raw) /\ RequestsTo(VISION_MODEL) = {})
    /\ RequestsTo(VISION_MODEL) # {} => RequestsTo(MATH_MODEL) = {}

\* A solve call made by the run right after the run that extracted.
SolveGatedWitness ==
    /\ step \in {"solve_succeeded", "solve_failed"}
    /\ history.event = "Solve"
    /\ history.prev_event = "Extract"
    /\ RequestsTo(MATH_MODEL) = {1}

\* C16: a stored ocr_result is a non-empty string, and every solve request
\* carries a non-empty equation, also after the vision model has answered
\* with empty content.
SolveInputNonEmpty ==
    /\ IsSet(session_state.ocr_result) => Len(session_state.ocr_result) > 0
    /\ \A i \in RequestsTo(MATH_MODEL) :
          (requests[i].content # None /\ Len(requests[i].content) > 0)

\* The vision model has answered with empty content while an ocr_result of
\* an earlier extraction was stored.
SolveInputNonEmptyWitness ==
    /\ step = "extract_failed"
    /\ response = <<>>
    /\ IsSet(session_state.ocr_result)

\* Two Clear clicks in a row: the current run and the one before it were
\* both started by a click on Clear.
SecondClear == history.event = "Clear" /\ history.prev_event = "Clear"

\* C17: the second of two Clear steps in a row leaves all three fields none,
\* as the first did, and the run it starts ends in the state in which the
\* first one's run ended.
ClearIdempotent ==
    SecondClear =>
        /\ step = "clear" => session_state = Empty
        /\ pc = "idle" => session_state = history.prev_end

\* The second Clear step has run on the state the first one's rerun left.
ClearIdempotentWitness ==
    /\ SecondClear
    /\ step = "clear"
    /\ IsSet(before.uploaded_image)

\* C18: the workflow has no terminal state: between runs the Clear button and
\* the uploader can always be used, a run in progress can always go on, and
\* the Empty state is reached again from every reachable state (by a user
\* who keeps using Clear).
NoTerminalState ==
    /\ [](pc = "idle" => (ENABLED ClickClear /\ ENABLED SelectFile))
    /\ [](pc # "idle" => ENABLED ScriptStep)
    /\ []<>(session_state = Empty)

\* A run has been ended by Image.open's exception while all three fields
\* were set.
NoTerminalStateWitness ==
    /\ pc = "idle"
    /\ step = "load_raised"
    /\ IsSet(session_state.solution_result)

\* C19: a stored solution_result is the answer to a solve call whose input
\* was the current ocr_result.
SolutionMatchesOcr ==
    IsSet(session_state.solution_result) =>
        /\ history.solve_output = session_state.solution_result
        /\ history.solve_input = session_state.ocr_result

\* A solution is stored and rendered after the image was replaced.
SolutionMatchesOcrWitness ==
    /\ step = "display"
    /\ IsSet(session_state.solution_result)
    /\ ocr_source # session_state.uploaded_image

\* C20: the run that a Clear click starts, its rerun included, ends with all
\* three fields none, also while the uploader still holds a file.
ClearRunEndsEmpty ==
    (pc = "idle" /\ history.event = "Clear") => session_state = Empty

=============================================================================
